---------------------------- MODULE Spec2Model ----------------------------
(***************************************************************************)
(* A model of the flight-tracker request handlers:                         *)
(*   src/src/app/api/flights/route.ts   GET /api/flights  (search)         *)
(*   src/unnamed/part_000               GET /api/prices   (pricing)        *)
(*   src/unnamed/part_001               GET /api/routes   (routes)         *)
(* and of the search page that calls the first of them:                    *)
(*   src/src/app/page.tsx               Home                               *)
(* Strings that the code inspects character by character (queries, airport *)
(* codes, dates, provider status words) are sequences of one-character     *)
(* strings; strings that the code only passes on (messages, names, ids)    *)
(* are TLA+ strings.                                                       *)
(***************************************************************************)
EXTENDS Integers, Sequences, FiniteSets, TLC

VARIABLES
    AVIATIONSTACK_API_KEY,  \* flights/route.ts:3, part_001:3 (read at module load)
    FLIGHTAPI_KEY,          \* part_000:3
    handler,                \* which GET is running: "none", "flights", "prices", "routes"
    pc,                     \* where that GET is: "idle", "fetch", "fetch_return", "done"
    locals,                 \* the handler's normalised request parameters
    calls,                  \* outbound provider calls issued for this request, in order
    replies,                \* what the provider answered to each call, in order
    response,               \* the NextResponse returned: [status, body]
    fn,                     \* pure-function specifications: the function applied
    args,                   \*   its arguments
    result,                 \*   its result
    page,                   \* page.tsx:54-59: the state of Home
                            \*   [query, flights, loading, searched, error]
    pending,                \* the searchFlights calls suspended at their fetch
    issued,                 \* how many fetches searchFlights has started
    latest,                 \* what became of the most recent searchFlights call
    settled                 \* how the most recently completed fetch ended

vars == <<AVIATIONSTACK_API_KEY, FLIGHTAPI_KEY, handler, pc, locals, calls,
          replies, response, fn, args, result,
          page, pending, issued, latest, settled>>

handlerVars == <<AVIATIONSTACK_API_KEY, FLIGHTAPI_KEY, handler, pc, locals,
                 calls, replies, response>>

fnVars == <<fn, args, result>>

pageVars == <<page, pending, issued, latest, settled>>

---------------------------------------------------------------------------
(* Bounds of the model.                                                    *)

\* longest raw search query (characters)
MaxLen == 4
\* fetches the search page starts in one run
MaxSearches == 3
\* longest raw airport code handed to the pricing handler
MaxCodeLen == 3
\* largest delay, in minutes, a provider flight carries
MaxDelay == 17
\* most flights / routes in one provider document
MaxFlights == 2
\* most itineraries in one pricing document
MaxItins == 3

---------------------------------------------------------------------------
(* JavaScript values.                                                      *)

\* null / undefined where a string is expected: no character is "null"
NULL == <<"null">>

\* null where a number is expected; a number n is <<n>>
NONE == <<>>

Some(n) == <<n>>

\* !s for a string-or-null s
Falsy(s) == s = NULL \/ s = <<>>

\* a || b for string-or-null a
OrElse(a, b) == IF Falsy(a) THEN b ELSE a

UpperAlphabet ==
    <<"A","B","C","D","E","F","G","H","I","J","K","L","M",
      "N","O","P","Q","R","S","T","U","V","W","X","Y","Z">>

LowerAlphabet ==
    <<"a","b","c","d","e","f","g","h","i","j","k","l","m",
      "n","o","p","q","r","s","t","u","v","w","x","y","z">>

DigitChars == {"0","1","2","3","4","5","6","7","8","9"}

WhiteSpace == {" "}

IsUpperLetter(c) == \E i \in 1..26 : UpperAlphabet[i] = c

IsDigit(c) == c \in DigitChars

ToUpperChar(c) ==
    IF \E i \in 1..26 : LowerAlphabet[i] = c
    THEN UpperAlphabet[CHOOSE i \in 1..26 : LowerAlphabet[i] = c]
    ELSE c

ToLowerChar(c) ==
    IF \E i \in 1..26 : UpperAlphabet[i] = c
    THEN LowerAlphabet[CHOOSE i \in 1..26 : UpperAlphabet[i] = c]
    ELSE c

\* String.prototype.toUpperCase
ToUpperCase(s) == [i \in 1..Len(s) |-> ToUpperChar(s[i])]

\* String.prototype.toLowerCase
ToLowerCase(s) == [i \in 1..Len(s) |-> ToLowerChar(s[i])]

\* String.prototype.trim
Trim(s) ==
    LET keep == {i \in 1..Len(s) : s[i] \notin WhiteSpace}
    IN  IF keep = {} THEN <<>>
        ELSE LET lo == CHOOSE i \in keep : \A j \in keep : i <= j
                 hi == CHOOSE i \in keep : \A j \in keep : j <= i
             IN  SubSeq(s, lo, hi)

\* searchParams.get(name)?.toUpperCase().trim()
UpperTrim(raw) == IF raw = NULL THEN NULL ELSE Trim(ToUpperCase(raw))

\* the characters raw request parameters are built from: an upper-case
\* letter, a lower-case letter, a digit and a blank
Chars == {"A", "a", "1", " "}

StringsUpTo(n) == UNION {[1..k -> Chars] : k \in 0..n}

---------------------------------------------------------------------------
(* mapStatus, flights/route.ts:83-107                                      *)

DelayThreshold == 15

DelayOver_AtLeast(d) == d # NONE /\ d[1] # 0 /\ d[1] >= DelayThreshold

\* depDelay && depDelay > 15
DelayOver(d) == d # NONE /\ d[1] # 0 /\ d[1] > DelayThreshold

W_scheduled == <<"s","c","h","e","d","u","l","e","d">>
W_active    == <<"a","c","t","i","v","e">>
W_landed    == <<"l","a","n","d","e","d">>
W_cancelled == <<"c","a","n","c","e","l","l","e","d">>
W_incident  == <<"i","n","c","i","d","e","n","t">>
W_diverted  == <<"d","i","v","e","r","t","e","d">>

\* apiStatus?.toLowerCase() || 'scheduled'
StatusWord(apiStatus) ==
    OrElse(IF apiStatus = NULL THEN NULL ELSE ToLowerCase(apiStatus), W_scheduled)

\* the switch of lines 91-106
SwitchStatus(status) ==
    CASE status = W_scheduled -> "scheduled"
      [] status = W_active    -> "in-flight"
      [] status = W_landed    -> "landed"
      [] status = W_cancelled -> "cancelled"
      [] status = W_incident  -> "delayed"
      [] status = W_diverted  -> "delayed"
      [] OTHER                -> "scheduled"

mapStatus_SwitchFirst(apiStatus, depDelay, arrDelay) ==
    LET status == StatusWord(apiStatus)
    IN  IF status \in {W_active, W_landed, W_cancelled}
        THEN SwitchStatus(status)
        ELSE IF DelayOver(depDelay) \/ DelayOver(arrDelay)
             THEN "delayed"
             ELSE SwitchStatus(status)

mapStatus(apiStatus, depDelay, arrDelay) ==
    LET status == StatusWord(apiStatus)
    IN  IF DelayOver(depDelay) \/ DelayOver(arrDelay)
        THEN "delayed"
        ELSE SwitchStatus(status)

\* provider status words the model feeds mapStatus: the six documented
\* ones, mixed-case spellings, unknown words, the empty string and null
ApiStatuses ==
    { W_scheduled, W_active, W_landed, W_cancelled, W_incident, W_diverted,
      <<"A","C","T","I","V","E">>, <<"L","a","n","d","e","d">>,
      <<"D","i","v","e","r","t","e","d">>,
      <<"b","o","a","r","d","i","n","g">>, <<"u","n","k","n","o","w","n">>,
      <<>>, NULL }

Delays == {NONE} \cup {Some(n) : n \in (0 - 1)..MaxDelay}

---------------------------------------------------------------------------
(* Request parameters and regular expressions.                             *)

D_valid  == <<"2","0","2","4","-","0","1","-","1","5">>
D_short  == <<"2","0","2","4","-","1","-","5">>
D_padded == <<"2","0","2","4","-","0","1","-","1","5"," ">>
D_words  == <<"t","o","m","o","r","r","o","w">>

\* raw values of a date parameter: missing, empty, well formed, malformed
RawDates == {NULL, <<>>, D_valid, D_short, D_padded, D_words}

\* raw values of the search handler's q parameter
RawQueries == StringsUpTo(MaxLen) \cup {NULL}

\* /^[A-Z]{2}\d*$/
FlightNumberPattern_DigitsOptional(s) ==
    /\ Len(s) >= 2
    /\ IsUpperLetter(s[1]) /\ IsUpperLetter(s[2])
    /\ \A i \in 3..Len(s) : IsDigit(s[i])

\* /^[A-Z]{2}\d+$/, flights/route.ts:181
FlightNumberPattern(s) ==
    /\ Len(s) >= 3
    /\ IsUpperLetter(s[1]) /\ IsUpperLetter(s[2])
    /\ \A i \in 3..Len(s) : IsDigit(s[i])

\* /^[A-Z]{3}$/, flights/route.ts:182 and part_000:154
AirportPattern(s) == Len(s) = 3 /\ \A i \in 1..3 : IsUpperLetter(s[i])

\* /^\d{4}-\d{2}-\d{2}$/, part_000:162
DatePattern(s) ==
    /\ Len(s) = 10
    /\ \A i \in {1, 2, 3, 4, 6, 7, 9, 10} : IsDigit(s[i])
    /\ s[5] = "-" /\ s[8] = "-"

\* a URL's search parameters are a function from names to values;
\* searchParams.set(name, value)
SetParam(params, name, value) ==
    (name :> value) @@ params

---------------------------------------------------------------------------
(* What a provider answers to one outbound call.                           *)

\* fetch() rejects (network failure)
THROW == [kind |-> "throw"]

\* an HTTP answer whose body is not JSON: response.json() rejects
NotJson(st) == [kind |-> "http", status |-> st, json |-> FALSE]

\* an HTTP answer whose body cannot be read at all: response.text() and
\* response.json() both reject
Unreadable(st) == [kind |-> "unreadable", status |-> st, json |-> FALSE]

\* an HTTP answer with a JSON document
Json(st, doc) == [kind |-> "http", status |-> st, json |-> TRUE, doc |-> doc]

\* response.ok
Ok(reply) == reply.status >= 200 /\ reply.status <= 299

NoCall == [none |-> TRUE]

NoResponse == [status |-> 0, body |-> [none |-> TRUE]]

\* a handler's return: the response, and nothing more to do
Return(st, body) ==
    [pc |-> "done", response |-> [status |-> st, body |-> body], call |-> NoCall]

\* a handler suspended on an outbound call to url
Await(at, url) == [pc |-> at, response |-> NoResponse, call |-> url]

---------------------------------------------------------------------------
(* Provider documents of the flight-status provider (flights and routes).  *)

\* an object the provider left out (a property read on it is a TypeError)
MISSING == [none |-> TRUE]

\* the outcome of a transform that raised
THROWN == [thrown |-> TRUE]

\* an array computed inside a try block: raised, or its value
Raised == [thrown |-> TRUE, value |-> <<>>]

Value(v) == [thrown |-> FALSE, value |-> v]

SeqsUpTo(S, n) == UNION {[1..k -> S] : k \in 0..n}

\* { error: { message } }; message "" stands for a missing message
ErrorDoc(msg) ==
    [error |-> [present |-> TRUE, message |-> msg],
     data  |-> [present |-> FALSE, items |-> <<>>]]

\* { data: [...] }
DataDoc(items) ==
    [error |-> [present |-> FALSE, message |-> ""],
     data  |-> [present |-> TRUE, items |-> items]]

\* {}: neither error nor data
EmptyDoc ==
    [error |-> [present |-> FALSE, message |-> ""],
     data  |-> [present |-> FALSE, items |-> <<>>]]

\* the answers of the flight-status provider to one call: a network
\* failure, a body that is not JSON, an authentication error (401), rate
\* limiting (429), a server error without message (500), an empty
\* document, and documents with up to MaxFlights items
AviationReplies(items) ==
    { THROW, NotJson(502),
      Json(401, ErrorDoc("Invalid access key")),
      Json(429, ErrorDoc("Rate limit reached")),
      Json(500, ErrorDoc("")),
      Json(200, EmptyDoc) }
    \cup { Json(200, DataDoc(l)) : l \in SeqsUpTo(items, MaxFlights) }

\* message || fallback, for message strings
MessageOr(msg, fallback) == IF msg = "" THEN fallback ELSE msg

---------------------------------------------------------------------------
(* The search handler, flights/route.ts                                    *)

ERR_FLIGHTS_KEY ==
    "Aviation Stack API key not configured. Please set AVIATIONSTACK_API_KEY environment variable."
ERR_FLIGHTS_UPSTREAM == "Failed to fetch flight data"
ERR_FLIGHTS_RETRY == "Failed to fetch flight data. Please try again."

\* provider flights the model answers with: a delayed active flight, a
\* landed flight without flight.iata, and an item without its flight object
SampleFlights ==
    { [flight |-> [iata |-> "AA100", number |-> "100"],
       airline |-> [iata |-> "AA", name |-> "American Airlines"],
       flight_status |-> W_active,
       departure |-> [delay |-> NONE], arrival |-> [delay |-> Some(16)]],
      [flight |-> [iata |-> "", number |-> "5"],
       airline |-> [iata |-> "UA", name |-> "United Airlines"],
       flight_status |-> W_landed,
       departure |-> [delay |-> Some(15)], arrival |-> [delay |-> NONE]],
      [flight |-> MISSING,
       airline |-> [iata |-> "UA", name |-> "United Airlines"],
       flight_status |-> W_scheduled,
       departure |-> [delay |-> NONE], arrival |-> [delay |-> NONE]] }

transformFlight_IdWithoutIndex(apiFlight, index) ==
    IF apiFlight.flight = MISSING THEN THROWN
    ELSE [id |-> <<apiFlight.flight.iata, "-", 0>>,
          flightNumber |->
              IF apiFlight.flight.iata # ""
              THEN <<apiFlight.flight.iata>>
              ELSE <<apiFlight.airline.iata, apiFlight.flight.number>>,
          airline |-> apiFlight.airline.name,
          status |-> mapStatus(apiFlight.flight_status,
                               apiFlight.departure.delay,
                               apiFlight.arrival.delay)]

\* transformFlight, lines 127-155: a template string is the tuple of its
\* parts; the leg and live fields are copies of provider fields and
\* formatTimezone's labels, which no handler reads again
transformFlight(apiFlight, index) ==
    IF apiFlight.flight = MISSING THEN THROWN
    ELSE [id |-> <<apiFlight.flight.iata, "-", index>>,
          flightNumber |->
              IF apiFlight.flight.iata # ""
              THEN <<apiFlight.flight.iata>>
              ELSE <<apiFlight.airline.iata, apiFlight.flight.number>>,
          airline |-> apiFlight.airline.name,
          status |-> mapStatus(apiFlight.flight_status,
                               apiFlight.departure.delay,
                               apiFlight.arrival.delay)]

\* (data.data || []).map(transformFlight), line 216: array indices start at 0
MapTransformFlight(items) ==
    IF \E i \in 1..Len(items) : transformFlight(items[i], i - 1) = THROWN
    THEN Raised
    ELSE Value([i \in 1..Len(items) |-> transformFlight(items[i], i - 1)])

SearchFields == {"flight_iata", "dep_iata", "airline_iata"}

SearchField_DigitsOptional(query) ==
    IF FlightNumberPattern_DigitsOptional(query) THEN "flight_iata"
    ELSE IF AirportPattern(query) THEN "dep_iata"
    ELSE IF Len(query) = 2 THEN "airline_iata"
    ELSE "flight_iata"

\* the classifier, lines 181-195: the search field the query is sent in
SearchField(query) ==
    IF FlightNumberPattern(query) THEN "flight_iata"
    ELSE IF AirportPattern(query) THEN "dep_iata"
    ELSE IF Len(query) = 2 THEN "airline_iata"
    ELSE "flight_iata"

\* lines 158-160
FlightsLocals(rawQ, rawDate) ==
    [query |-> OrElse(UpperTrim(rawQ), <<>>),
     flightDate |-> OrElse(rawDate, <<>>)]

\* lines 175-203
FlightsApiUrl(l) ==
    LET u0 == SetParam(<<>>, "access_key", "AVIATIONSTACK_API_KEY")
        u1 == SetParam(u0, SearchField(l.query), l.query)
        u2 == IF l.flightDate # <<>>
              THEN SetParam(u1, "flight_date", l.flightDate)
              ELSE u1
    IN  [path |-> "/flights", params |-> SetParam(u2, "limit", "20")]

FlightsGET_Begin_NoKeyCheck(l, key) ==
    IF l.query = <<>> THEN Return(200, [flights |-> <<>>])
    ELSE Await("fetch", FlightsApiUrl(l))

\* lines 162-205: up to the first await
FlightsGET_Begin(l, key) ==
    IF l.query = <<>> THEN Return(200, [flights |-> <<>>])
    ELSE IF ~key THEN Return(500, [error |-> ERR_FLIGHTS_KEY])
    ELSE Await("fetch", FlightsApiUrl(l))

FlightsGET_OnReply_MapOutsideTry(l, reply) ==
    IF reply = THROW \/ ~reply.json
    THEN Return(500, [error |-> ERR_FLIGHTS_RETRY])
    ELSE IF reply.doc.error.present
    THEN Return(400, [error |-> MessageOr(reply.doc.error.message,
                                           ERR_FLIGHTS_UPSTREAM)])
    ELSE LET flights == MapTransformFlight(reply.doc.data.items)
         IN  IF flights.thrown
             THEN [pc |-> "escaped", response |-> NoResponse, call |-> NoCall]
             ELSE Return(200, [flights |-> flights.value])

\* lines 205-225: from the provider's answer to the response
FlightsGET_OnReply(l, reply) ==
    IF reply = THROW \/ ~reply.json
    THEN Return(500, [error |-> ERR_FLIGHTS_RETRY])
    ELSE IF reply.doc.error.present
    THEN Return(400, [error |-> MessageOr(reply.doc.error.message,
                                           ERR_FLIGHTS_UPSTREAM)])
    ELSE LET flights == MapTransformFlight(reply.doc.data.items)
         IN  IF flights.thrown
             THEN Return(500, [error |-> ERR_FLIGHTS_RETRY])
             ELSE Return(200, [flights |-> flights.value])

---------------------------------------------------------------------------
(* transformPricingData, part_000:81-135                                   *)

\* the provider's lookup tables, keyed by numeric id
SamplePlaces ==
    (1 :> [id |-> 1, iata |-> "JFK", name |-> "New York John F. Kennedy"])
    @@ (2 :> [id |-> 2, iata |-> "LAX", name |-> "Los Angeles International"])

SampleCarriers ==
    (7 :> [id |-> 7, iata |-> "AA", name |-> "American Airlines"])

\* table[id]: undefined when the table has no such id
Lookup(table, id) == IF id \in DOMAIN table THEN table[id] ELSE MISSING

FieldOr_NoFallback(obj, field, fallback) ==
    IF obj = MISSING THEN "undefined" ELSE obj[field]

\* obj?.field || fallback
FieldOr(obj, field, fallback) ==
    IF obj = MISSING \/ obj[field] = "" THEN fallback ELSE obj[field]

\* pricing options: price without amount and no booking item; amount 1
\* with a relative booking URL; amount 2 with an absolute booking URL
OptionNoAmount ==
    [price |-> [amount |-> NONE], items |-> <<>>]
OptionOne ==
    [price |-> [amount |-> Some(1)],
     items |-> <<[url |-> <<"/transport/flights/book">>]>>]
OptionTwo ==
    [price |-> [amount |-> Some(2)],
     items |-> <<[url |-> <<"http", "s://agent.example/book">>]>>]

\* legs: one whose place and carrier ids are in the tables, one whose ids
\* are in neither, one without carrier ids
LegKnown ==
    [origin_place_id |-> 1, destination_place_id |-> 2,
     departure |-> "2024-01-15T08:00:00", arrival |-> "2024-01-15T11:30:00",
     duration |-> 390, stop_count |-> 0, marketing_carrier_ids |-> <<7>>]
LegUnknown ==
    [origin_place_id |-> 8, destination_place_id |-> 9,
     departure |-> "2024-01-15T09:00:00", arrival |-> "2024-01-15T15:00:00",
     duration |-> 420, stop_count |-> 1, marketing_carrier_ids |-> <<9>>]
LegNoCarrier ==
    [origin_place_id |-> 1, destination_place_id |-> 9,
     departure |-> "2024-01-15T10:00:00", arrival |-> "2024-01-15T16:00:00",
     duration |-> 360, stop_count |-> 2, marketing_carrier_ids |-> <<>>]

\* what one itinerary holds: its pricing options and its legs (only the
\* first of each is read)
ItinShapes ==
    [pricing_options : {<<>>, <<OptionNoAmount>>, <<OptionOne>>, <<OptionTwo>>,
                        <<OptionOne, OptionTwo>>},
     legs : {<<>>, <<LegKnown>>, <<LegUnknown>>, <<LegNoCarrier>>}]

\* the itinerary at position k of the provider's array; its id names k
Itinerary(k, shape) ==
    [id |-> <<"itinerary", k>>,
     pricing_options |-> shape.pricing_options,
     legs |-> shape.legs]

\* a pricing document with the itineraries of the given shapes
PricingDoc(shapes) ==
    [error |-> "", message |-> "",
     itineraries |-> [k \in 1..Len(shapes) |-> Itinerary(k, shapes[k])],
     places |-> SamplePlaces, carriers |-> SampleCarriers, currency |-> "EUR"]

\* xs?.[0]
First(xs) == IF xs = <<>> THEN MISSING ELSE xs[1]

\* bookingItem.url.startsWith('http')
StartsWithHttp(url) == url[1] = "http"

\* lines 99-107
BookingUrl(pricingOption) ==
    LET bookingItem == First(pricingOption.items)
    IN  IF bookingItem = MISSING \/ bookingItem.url = <<>> THEN <<>>
        ELSE IF StartsWithHttp(bookingItem.url) THEN bookingItem.url
        ELSE <<"https://www.skyscanner.com">> \o bookingItem.url

\* pricingOption.price?.amount || 0
PriceAmount(pricingOption) ==
    IF pricingOption.price = MISSING \/ pricingOption.price.amount = NONE
    THEN 0
    ELSE pricingOption.price.amount[1]

\* lines 88-128: the result pushed for one itinerary
PriceResultOf(itinerary, data) ==
    LET pricingOption == First(itinerary.pricing_options)
        leg == First(itinerary.legs)
        originPlace == Lookup(data.places, leg.origin_place_id)
        destPlace == Lookup(data.places, leg.destination_place_id)
        carrierIds == leg.marketing_carrier_ids
        carrier == IF carrierIds = <<>> THEN MISSING
                   ELSE Lookup(data.carriers, carrierIds[1])
    IN  [id |-> itinerary.id,
         price |-> PriceAmount(pricingOption),
         currency |-> MessageOr(data.currency, "USD"),
         airline |-> FieldOr(carrier, "name", "Unknown Airline"),
         airlineCode |-> FieldOr(carrier, "iata", ""),
         departure |-> [airport |-> FieldOr(originPlace, "iata", ""),
                        airportName |-> FieldOr(originPlace, "name", ""),
                        time |-> leg.departure],
         arrival |-> [airport |-> FieldOr(destPlace, "iata", ""),
                      airportName |-> FieldOr(destPlace, "name", ""),
                      time |-> leg.arrival],
         duration |-> leg.duration,
         stops |-> leg.stop_count,
         bookingUrl |-> BookingUrl(pricingOption)]

\* lines 87-92: the itineraries the loop does not skip
Kept(itinerary) ==
    First(itinerary.pricing_options) # MISSING /\ First(itinerary.legs) # MISSING

\* lines 87-129: the results in the order they are pushed
RECURSIVE Pushed(_, _, _)
Pushed(data, i, results) ==
    IF i > Len(data.itineraries) THEN results
    ELSE Pushed(data, i + 1,
                IF Kept(data.itineraries[i])
                THEN Append(results, PriceResultOf(data.itineraries[i], data))
                ELSE results)

InsertByPrice_BeforeEqual(sorted, r) ==
    LET before == {i \in 1..Len(sorted) : sorted[i].price < r.price}
        n == Cardinality(before)
    IN  SubSeq(sorted, 1, n) \o <<r>> \o SubSeq(sorted, n + 1, Len(sorted))

\* r placed after every element whose price is not greater: the comparator
\* (a, b) => a.price - b.price never moves r before an equal element
InsertByPrice(sorted, r) ==
    LET before == {i \in 1..Len(sorted) : sorted[i].price <= r.price}
        n == Cardinality(before)
    IN  SubSeq(sorted, 1, n) \o <<r>> \o SubSeq(sorted, n + 1, Len(sorted))

\* Array.prototype.sort with the comparator of line 132; the sort is stable
\* (ECMAScript 2019, and the README asks for Node.js 20)
RECURSIVE SortByPrice(_, _, _)
SortByPrice(results, i, sorted) ==
    IF i > Len(results) THEN sorted
    ELSE SortByPrice(results, i + 1, InsertByPrice(sorted, results[i]))

transformPricingData(data) == SortByPrice(Pushed(data, 1, <<>>), 1, <<>>)

\* line 88: itinerary.pricing_options read on an itinerary that is null is
\* a TypeError, which leaves transformPricingData
PricingThrows(data) ==
    \E k \in DOMAIN data.itineraries : data.itineraries[k] = MISSING

---------------------------------------------------------------------------
(* The pricing handler, part_000:137-241                                   *)

ERR_PRICES_MISSING == "Missing required parameters: from, to, date"
ERR_PRICES_CODE == "Invalid airport code. Use 3-letter IATA codes (e.g., JFK, LAX)"
ERR_PRICES_DATE == "Invalid date format. Use YYYY-MM-DD"
ERR_PRICES_KEY ==
    "FlightAPI.io API key not configured. Please set FLIGHTAPI_KEY environment variable."
ERR_PRICES_AUTH == "Invalid API key. Please check your FLIGHTAPI_KEY."
ERR_PRICES_RATE == "API rate limit exceeded. Please try again later."
ERR_PRICES_RETRY == "Failed to fetch pricing data. Please try again."
ERR_PRICES_UNKNOWN == "Unknown API error"

\* raw values of the pricing handler's from and to parameters
RawCodes == StringsUpTo(MaxCodeLen) \cup {NULL, <<" ","a","A","a"," ">>}

\* what lines 139-140 can leave in from and in to
CodeValues == {UpperTrim(raw) : raw \in RawCodes}

\* raw values of adults and currency together ("" stands for a missing
\* parameter): both missing, or both given
RawAdultsCurrency == {<<"", "">>, <<"2", "EUR">>}

\* parseInt, for the adults values of the model
ParseInt(s) == IF s = "2" THEN 2 ELSE 1

\* lines 139-143, from and to already upper-cased and trimmed
PricesLocals(from, to, rawDate, rawAdults, rawCurrency) ==
    [from |-> from, to |-> to, date |-> rawDate,
     adults |-> MessageOr(rawAdults, "1"),
     currency |-> MessageOr(rawCurrency, "USD")]

\* line 179
PricesApiUrl(l) ==
    [path |-> <<"onewaytrip", "FLIGHTAPI_KEY", l.from, l.to, l.date,
                l.adults, "0", "0", "Economy", l.currency>>,
     headers |-> [Accept |-> "application/json"]]

PricesGET_Begin_KeyFirst(l, key) ==
    IF ~key THEN Return(500, [error |-> ERR_PRICES_KEY])
    ELSE IF Falsy(l.from) \/ Falsy(l.to) \/ Falsy(l.date)
    THEN Return(400, [error |-> ERR_PRICES_MISSING])
    ELSE IF ~AirportPattern(l.from) \/ ~AirportPattern(l.to)
    THEN Return(400, [error |-> ERR_PRICES_CODE])
    ELSE IF ~DatePattern(l.date)
    THEN Return(400, [error |-> ERR_PRICES_DATE])
    ELSE Await("fetch", PricesApiUrl(l))

PricesGET_Begin_DateFirst(l, key) ==
    IF Falsy(l.from) \/ Falsy(l.to) \/ Falsy(l.date)
    THEN Return(400, [error |-> ERR_PRICES_MISSING])
    ELSE IF ~DatePattern(l.date)
    THEN Return(400, [error |-> ERR_PRICES_DATE])
    ELSE IF ~key THEN Return(500, [error |-> ERR_PRICES_KEY])
    ELSE IF ~AirportPattern(l.from) \/ ~AirportPattern(l.to)
    THEN Return(400, [error |-> ERR_PRICES_CODE])
    ELSE Await("fetch", PricesApiUrl(l))

\* lines 145-181: up to the first await
PricesGET_Begin(l, key) ==
    IF Falsy(l.from) \/ Falsy(l.to) \/ Falsy(l.date)
    THEN Return(400, [error |-> ERR_PRICES_MISSING])
    ELSE IF ~AirportPattern(l.from) \/ ~AirportPattern(l.to)
    THEN Return(400, [error |-> ERR_PRICES_CODE])
    ELSE IF ~DatePattern(l.date)
    THEN Return(400, [error |-> ERR_PRICES_DATE])
    ELSE IF ~key THEN Return(500, [error |-> ERR_PRICES_KEY])
    ELSE Await("fetch", PricesApiUrl(l))

\* lines 181-240: from the provider's answer to the response
PricesGET_OnReply(l, reply) ==
    IF reply = THROW THEN Return(500, [error |-> ERR_PRICES_RETRY])
    ELSE IF ~Ok(reply)
    THEN IF reply.kind = "unreadable"
         THEN Return(500, [error |-> ERR_PRICES_RETRY])
         ELSE IF reply.status = 401 THEN Return(401, [error |-> ERR_PRICES_AUTH])
         ELSE IF reply.status = 429 THEN Return(429, [error |-> ERR_PRICES_RATE])
         ELSE Return(reply.status, [error |-> ERR_PRICES_RETRY])
    ELSE IF ~reply.json THEN Return(500, [error |-> ERR_PRICES_RETRY])
    ELSE IF reply.doc.error # "" \/ reply.doc.message # ""
    THEN Return(400, [error |-> MessageOr(reply.doc.message,
                                 MessageOr(reply.doc.error, ERR_PRICES_UNKNOWN))])
    ELSE IF PricingThrows(reply.doc)
    THEN Return(500, [error |-> ERR_PRICES_RETRY])
    ELSE LET prices == transformPricingData(reply.doc)
         IN  Return(200, [prices |-> prices,
                          meta |-> [from |-> l.from, to |-> l.to, date |-> l.date,
                                    adults |-> ParseInt(l.adults),
                                    currency |-> l.currency,
                                    resultsCount |-> Len(prices)]])

\* an error document of the pricing provider: { error } and/or { message }
PricingErrorDoc(err, msg) ==
    [error |-> err, message |-> msg, itineraries |-> <<>>,
     places |-> <<>>, carriers |-> <<>>, currency |-> ""]

\* a pricing document whose only itinerary is null
NullItineraryDoc ==
    [error |-> "", message |-> "", itineraries |-> <<MISSING>>,
     places |-> SamplePlaces, carriers |-> SampleCarriers, currency |-> "EUR"]

\* pricing documents the handler is answered with: none, one, and three
\* itineraries out of price order with a tie
SamplePricingDocs ==
    { PricingDoc(<<>>),
      PricingDoc(<<[pricing_options |-> <<OptionOne>>, legs |-> <<LegUnknown>>]>>),
      PricingDoc(<<[pricing_options |-> <<OptionTwo>>, legs |-> <<LegKnown>>],
                   [pricing_options |-> <<OptionOne>>, legs |-> <<LegKnown>>],
                   [pricing_options |-> <<OptionTwo>>, legs |-> <<LegNoCarrier>>]>>) }

\* the answers of the pricing provider to one call
PricingReplies ==
    { THROW, NotJson(401), NotJson(429), NotJson(404), NotJson(500),
      NotJson(200), Unreadable(503), Json(200, NullItineraryDoc),
      Json(200, PricingErrorDoc("", "No flights found")),
      Json(200, PricingErrorDoc("invalid_request", "")) }
    \cup { Json(200, doc) : doc \in SamplePricingDocs }

---------------------------------------------------------------------------
(* The routes handler, part_001:55-158                                     *)

ERR_ROUTES_MISSING == "Both origin and destination are required"
ERR_ROUTES_KEY == "Aviation Stack API key not configured"
ERR_ROUTES_UPSTREAM == "Failed to fetch flight routes"
ERR_ROUTES_RETRY == "Failed to fetch flight routes. Please try again."

\* provider routes the model answers with: two routes, and an item
\* without its airline object
SampleRoutes ==
    { [airline |-> [iata |-> "AA", name |-> "American Airlines"],
       flight |-> [number |-> "100"],
       departure |-> [iata |-> "JFK"], arrival |-> [iata |-> "LAX"]],
      [airline |-> [iata |-> "UA", name |-> "United Airlines"],
       flight |-> [number |-> "5"],
       departure |-> [iata |-> "JFK"], arrival |-> [iata |-> "LAX"]],
      [airline |-> MISSING,
       flight |-> [number |-> "7"],
       departure |-> [iata |-> "JFK"], arrival |-> [iata |-> "LAX"]] }

\* transformRoute, lines 55-76 (the leg's name, time, timezone and
\* terminal are copies of provider fields)
transformRoute(route, index) ==
    IF route.airline = MISSING THEN THROWN
    ELSE [id |-> <<route.airline.iata, route.flight.number, "-", index>>,
          flightNumber |-> <<route.airline.iata, route.flight.number>>,
          airline |-> route.airline.name,
          airlineCode |-> route.airline.iata,
          departure |-> [airport |-> route.departure.iata],
          arrival |-> [airport |-> route.arrival.iata]]

\* (data.data || []).map(transformRoute), lines 118 and 133
MapTransformRoute(items) ==
    IF \E i \in 1..Len(items) : transformRoute(items[i], i - 1) = THROWN
    THEN Raised
    ELSE Value([i \in 1..Len(items) |-> transformRoute(items[i], i - 1)])

\* raw values of origin and of destination: missing, empty, blank, a
\* lower-case code, a padded code, and a code that is no IATA code
RawRouteCodes ==
    { NULL, <<>>, <<" ">>, <<"a","a","a">>, <<"A","A","A"," ">>, <<"A","1">> }

\* raw values of departureDate and of returnDate
RawRouteDates == {NULL, D_valid, D_words}

\* lines 80-83
RoutesLocals(rawOrigin, rawDestination, rawDeparture, rawReturn) ==
    [origin |-> OrElse(UpperTrim(rawOrigin), <<>>),
     destination |-> OrElse(UpperTrim(rawDestination), <<>>),
     departureDate |-> OrElse(rawDeparture, <<>>),
     returnDate |-> OrElse(rawReturn, <<>>),
     outboundRoutes |-> <<>>]

\* lines 101-105 and 123-127
RoutesApiUrl(dep, arr) ==
    LET u0 == SetParam(<<>>, "access_key", "AVIATIONSTACK_API_KEY")
        u1 == SetParam(u0, "dep_iata", dep)
        u2 == SetParam(u1, "arr_iata", arr)
    IN  [path |-> "/routes", params |-> SetParam(u2, "limit", "25")]

\* lines 137-150
RoutesBody(l, returnRoutes) ==
    [outbound |-> [routes |-> l.outboundRoutes, origin |-> l.origin,
                   destination |-> l.destination, date |-> l.departureDate],
     return |-> IF l.returnDate # <<>>
                THEN [isNull |-> FALSE, routes |-> returnRoutes,
                      origin |-> l.destination, destination |-> l.origin,
                      date |-> l.returnDate]
                ELSE [isNull |-> TRUE, routes |-> <<>>,
                      origin |-> <<>>, destination |-> <<>>, date |-> <<>>]]

RoutesGET_Begin_FetchBeforeKeyCheck(l, key) ==
    IF l.origin = <<>> \/ l.destination = <<>>
    THEN Return(400, [error |-> ERR_ROUTES_MISSING])
    ELSE Await("fetch", RoutesApiUrl(l.origin, l.destination))

\* lines 85-107: up to the first await
RoutesGET_Begin(l, key) ==
    IF l.origin = <<>> \/ l.destination = <<>>
    THEN Return(400, [error |-> ERR_ROUTES_MISSING])
    ELSE IF ~key THEN Return(500, [error |-> ERR_ROUTES_KEY])
    ELSE Await("fetch", RoutesApiUrl(l.origin, l.destination))

\* lines 107-129 (then 137-150 without a return date): from the outbound
\* answer to the second await or the response; .locals is l with
\* outboundRoutes assigned
RoutesGET_OnOutbound(l, reply) ==
    IF reply = THROW \/ ~reply.json
    THEN [locals |-> l, step |-> Return(500, [error |-> ERR_ROUTES_RETRY])]
    ELSE IF reply.doc.error.present
    THEN [locals |-> l,
          step |-> Return(400, [error |-> MessageOr(reply.doc.error.message,
                                                     ERR_ROUTES_UPSTREAM)])]
    ELSE LET routes == MapTransformRoute(reply.doc.data.items)
             l2 == [l EXCEPT !.outboundRoutes = routes.value]
         IN  IF routes.thrown
             THEN [locals |-> l,
                   step |-> Return(500, [error |-> ERR_ROUTES_RETRY])]
             ELSE IF l.returnDate # <<>>
             THEN [locals |-> l2,
                   step |-> Await("fetch_return",
                                  RoutesApiUrl(l.destination, l.origin))]
             ELSE [locals |-> l2, step |-> Return(200, RoutesBody(l2, <<>>))]

\* lines 129-157: from the return-leg answer to the response
RoutesGET_OnReturn(l, reply) ==
    IF reply = THROW \/ ~reply.json
    THEN Return(500, [error |-> ERR_ROUTES_RETRY])
    ELSE IF reply.doc.error.present
    THEN Return(200, RoutesBody(l, <<>>))
    ELSE LET routes == MapTransformRoute(reply.doc.data.items)
         IN  IF routes.thrown
             THEN Return(500, [error |-> ERR_ROUTES_RETRY])
             ELSE Return(200, RoutesBody(l, routes.value))

---------------------------------------------------------------------------
(* The search page, page.tsx:53-199                                        *)

\* the queries of the three suggestion buttons, lines 142-150
Q_AA100 == <<"A", "A", "1", "0", "0">>
Q_UA == <<"U", "A">>
Q_JFK == <<"J", "F", "K">>

Suggestions == {Q_AA100, Q_UA, Q_JFK}

\* what the user leaves in the input before submitting: nothing, a blank,
\* or one of the queries above
TypedQueries == {<<>>, <<" ">>} \cup Suggestions

\* lines 54-59: the useState initial values; error null is NONE
InitialPage ==
    [query |-> <<>>, flights |-> <<>>, loading |-> FALSE, searched |-> FALSE,
     error |-> NONE]

\* how a fetch of /api/flights ends for searchFlights: fetch or
\* response.json() rejects, or the handler's body arrives; an absent
\* error is "", absent flights are <<>>
Rejected == [rejected |-> TRUE, data |-> [error |-> "", flights |-> <<>>]]

Body(error, flights) ==
    [rejected |-> FALSE, data |-> [error |-> error, flights |-> flights]]

\* the flight the handler finds for a query (a Flight is cut down to its
\* id and flight number)
FlightFor(searchQuery) ==
    IF searchQuery = Q_AA100
    THEN [id |-> <<"AA100", "-", 0>>, flightNumber |-> <<"AA100">>]
    ELSE IF searchQuery = Q_UA
    THEN [id |-> <<"", "-", 0>>, flightNumber |-> <<"UA", "5">>]
    ELSE [id |-> <<"DL1", "-", 0>>, flightNumber |-> <<"DL1">>]

\* the ends of a fetch for searchQuery: a rejection, the handler's 500
\* error body, no flight, one flight
Outcomes(searchQuery) ==
    { Rejected,
      Body(ERR_FLIGHTS_RETRY, <<>>),
      Body("", <<>>),
      Body("", <<FlightFor(searchQuery)>>) }

\* lines 62-70: searchFlights up to its return or its fetch
searchFlights_Begin(p, searchQuery) ==
    IF Trim(searchQuery) = <<>>
    THEN [page |-> [p EXCEPT !.flights = <<>>, !.searched = FALSE],
          sent |-> FALSE]
    ELSE [page |-> [p EXCEPT !.loading = TRUE, !.searched = TRUE,
                             !.error = NONE],
          sent |-> TRUE]

\* lines 76-88: searchFlights from the end of its fetch to its end
searchFlights_OnSettled(p, outcome) ==
    LET p1 == IF outcome.rejected
              THEN [p EXCEPT !.flights = <<>>]
              ELSE IF outcome.data.error # ""
              THEN [p EXCEPT !.error = Some(outcome.data.error),
                             !.flights = <<>>]
              ELSE [p EXCEPT !.flights = outcome.data.flights]
    IN  [p1 EXCEPT !.loading = FALSE]

\* what Home renders, lines 157, 170, 182 and 195
ShowsLoading == page.loading

ShowsError == ~page.loading /\ page.error # NONE

ShowsEmpty ==
    /\ ~page.loading
    /\ page.error = NONE
    /\ page.searched
    /\ page.flights = <<>>

ShowsResults == ~page.loading /\ page.flights # <<>>

\* the most recent searchFlights call: none yet, one that returned at
\* line 65 ("blank"), one suspended at its fetch ("pending"), one that
\* has ended ("settled") with the outcome
NoCallYet == [call |-> "none", outcome |-> Rejected, searchQuery |-> <<>>]

\* no fetch has ended yet
NoneSettled == [any |-> FALSE, outcome |-> Rejected]

PageIdle ==
    /\ page = InitialPage
    /\ pending = {}
    /\ issued = 0
    /\ latest = NoCallYet
    /\ settled = NoneSettled

---------------------------------------------------------------------------
(* The handlers' variables when no request is being handled, and the       *)
(* pure-function variables when no function is being applied.              *)

NoLocals == [none |-> TRUE]

NoArgs == [none |-> TRUE]

NoResult == [none |-> TRUE]

HandlersIdle ==
    /\ AVIATIONSTACK_API_KEY = FALSE
    /\ FLIGHTAPI_KEY = FALSE
    /\ handler = "none"
    /\ pc = "idle"
    /\ locals = NoLocals
    /\ calls = <<>>
    /\ replies = <<>>
    /\ response = NoResponse

---------------------------------------------------------------------------
(* SpecStatus: mapStatus applied to every provider status and delays.      *)

InitStatus ==
    /\ HandlersIdle
    /\ PageIdle
    /\ fn = "mapStatus"
    /\ \E s \in ApiStatuses, d \in Delays, a \in Delays :
           args = [apiStatus |-> s, depDelay |-> d, arrDelay |-> a]
    /\ result = NoResult

ApplyMapStatus ==
    /\ fn = "mapStatus"
    /\ result = NoResult
    /\ result' = [value |-> mapStatus(args.apiStatus, args.depDelay, args.arrDelay)]
    /\ UNCHANGED <<fn, args>>
    /\ UNCHANGED handlerVars
    /\ UNCHANGED pageVars

NextStatus == ApplyMapStatus

SpecStatus == InitStatus /\ [][NextStatus]_vars

---------------------------------------------------------------------------
(* SpecPricing: transformPricingData applied to every pricing document of  *)
(* up to MaxItins itineraries.                                             *)

InitPricing ==
    /\ HandlersIdle
    /\ PageIdle
    /\ fn = "transformPricingData"
    /\ \E shapes \in SeqsUpTo(ItinShapes, MaxItins) :
           args = [data |-> PricingDoc(shapes)]
    /\ result = NoResult

ApplyTransformPricingData ==
    /\ fn = "transformPricingData"
    /\ result = NoResult
    /\ result' = [value |-> transformPricingData(args.data)]
    /\ UNCHANGED <<fn, args>>
    /\ UNCHANGED handlerVars
    /\ UNCHANGED pageVars

NextPricing == ApplyTransformPricingData

SpecPricing == InitPricing /\ [][NextPricing]_vars

---------------------------------------------------------------------------
(* Spec: the three handlers, one request at a time (requests share no      *)
(* state, so their interleavings add nothing).                             *)

FnIdle == fn = "none" /\ args = NoArgs /\ result = NoResult

Init ==
    /\ AVIATIONSTACK_API_KEY \in BOOLEAN
    /\ FLIGHTAPI_KEY \in BOOLEAN
    /\ handler = "none"
    /\ pc = "idle"
    /\ locals = NoLocals
    /\ calls = <<>>
    /\ replies = <<>>
    /\ response = NoResponse
    /\ FnIdle
    /\ PageIdle

\* a handler has run from the request to its first await or return
Begun(h, l, r) ==
    /\ handler' = h
    /\ locals' = l
    /\ pc' = r.pc
    /\ response' = r.response
    /\ calls' = IF r.call = NoCall THEN <<>> ELSE <<r.call>>
    /\ replies' = <<>>
    /\ UNCHANGED <<AVIATIONSTACK_API_KEY, FLIGHTAPI_KEY>>
    /\ UNCHANGED fnVars
    /\ UNCHANGED pageVars

\* a handler has run from a provider's answer to its next await or return
Resumed(l, reply, r) ==
    /\ locals' = l
    /\ pc' = r.pc
    /\ response' = r.response
    /\ calls' = IF r.call = NoCall THEN calls ELSE Append(calls, r.call)
    /\ replies' = Append(replies, reply)
    /\ UNCHANGED <<AVIATIONSTACK_API_KEY, FLIGHTAPI_KEY, handler>>
    /\ UNCHANGED fnVars
    /\ UNCHANGED pageVars

FlightsRequest ==
    /\ pc = "idle"
    /\ \E rawQ \in RawQueries, rawDate \in RawDates :
           LET l == FlightsLocals(rawQ, rawDate)
           IN  Begun("flights", l, FlightsGET_Begin(l, AVIATIONSTACK_API_KEY))

FlightsReply ==
    /\ handler = "flights"
    /\ pc = "fetch"
    /\ \E reply \in AviationReplies(SampleFlights) :
           Resumed(locals, reply, FlightsGET_OnReply(locals, reply))

PricesRequest ==
    /\ pc = "idle"
    /\ \E from \in CodeValues, to \in CodeValues, rawDate \in RawDates,
          ac \in RawAdultsCurrency :
           LET l == PricesLocals(from, to, rawDate, ac[1], ac[2])
           IN  Begun("prices", l, PricesGET_Begin(l, FLIGHTAPI_KEY))

PricesReply ==
    /\ handler = "prices"
    /\ pc = "fetch"
    /\ \E reply \in PricingReplies :
           Resumed(locals, reply, PricesGET_OnReply(locals, reply))

RoutesRequest ==
    /\ pc = "idle"
    /\ \E rawOrigin \in RawRouteCodes, rawDestination \in RawRouteCodes,
          rawDeparture \in RawRouteDates, rawReturn \in RawRouteDates :
           LET l == RoutesLocals(rawOrigin, rawDestination, rawDeparture, rawReturn)
           IN  Begun("routes", l, RoutesGET_Begin(l, AVIATIONSTACK_API_KEY))

RoutesOutboundReply ==
    /\ handler = "routes"
    /\ pc = "fetch"
    /\ \E reply \in AviationReplies(SampleRoutes) :
           LET r == RoutesGET_OnOutbound(locals, reply)
           IN  Resumed(r.locals, reply, r.step)

RoutesReturnReply ==
    /\ handler = "routes"
    /\ pc = "fetch_return"
    /\ \E reply \in AviationReplies(SampleRoutes) :
           Resumed(locals, reply, RoutesGET_OnReturn(locals, reply))

\* the response has been sent; the request's values are discarded
Finish ==
    /\ pc = "done"
    /\ handler' = "none"
    /\ pc' = "idle"
    /\ locals' = NoLocals
    /\ calls' = <<>>
    /\ replies' = <<>>
    /\ response' = NoResponse
    /\ UNCHANGED <<AVIATIONSTACK_API_KEY, FLIGHTAPI_KEY>>
    /\ UNCHANGED fnVars
    /\ UNCHANGED pageVars

Next ==
    \/ FlightsRequest
    \/ FlightsReply
    \/ PricesRequest
    \/ PricesReply
    \/ RoutesRequest
    \/ RoutesOutboundReply
    \/ RoutesReturnReply
    \/ Finish

Spec == Init /\ [][Next]_vars

---------------------------------------------------------------------------
(* SpecUI: the search page; any number of searchFlights calls may be       *)
(* suspended at their fetch at once, and their fetches end in any order.   *)

InitUI ==
    /\ HandlersIdle
    /\ FnIdle
    /\ PageIdle

\* searchFlights(searchQuery) has been called on page p and has run to its
\* return or to its fetch
Called(p, searchQuery) ==
    LET b == searchFlights_Begin(p, searchQuery)
    IN  /\ b.sent => issued < MaxSearches
        /\ page' = b.page
        /\ issued' = IF b.sent THEN issued + 1 ELSE issued
        /\ pending' = IF b.sent
                      THEN pending \cup {[n |-> issued + 1,
                                          searchQuery |-> searchQuery]}
                      ELSE pending
        /\ latest' = [call |-> IF b.sent THEN "pending" ELSE "blank",
                      outcome |-> Rejected, searchQuery |-> searchQuery]
        /\ UNCHANGED settled

\* line 119: onChange of the input
ChangeQuery ==
    /\ \E q \in TypedQueries :
           /\ q # page.query
           /\ page' = [page EXCEPT !.query = q]
    /\ UNCHANGED <<pending, issued, latest, settled>>
    /\ UNCHANGED handlerVars
    /\ UNCHANGED fnVars

\* lines 91-94 and 123-125: the form is submitted; its submit button is
\* disabled while loading
Submit ==
    /\ ~page.loading
    /\ Called(page, page.query)
    /\ UNCHANGED handlerVars
    /\ UNCHANGED fnVars

\* lines 142-150: a suggestion button is clicked; these are never disabled
Suggest ==
    /\ \E q \in Suggestions : Called([page EXCEPT !.query = q], q)
    /\ UNCHANGED handlerVars
    /\ UNCHANGED fnVars

\* lines 75-88: the fetch of a suspended searchFlights call ends and the
\* call runs to its end
Settle ==
    /\ \E r \in pending : \E outcome \in Outcomes(r.searchQuery) :
           /\ page' = searchFlights_OnSettled(page, outcome)
           /\ pending' = pending \ {r}
           /\ settled' = [any |-> TRUE, outcome |-> outcome]
           /\ latest' = IF r.n = issued /\ latest.call = "pending"
                         THEN [latest EXCEPT !.call = "settled",
                                             !.outcome = outcome]
                         ELSE latest
    /\ UNCHANGED issued
    /\ UNCHANGED handlerVars
    /\ UNCHANGED fnVars

NextUI ==
    \/ ChangeQuery
    \/ Submit
    \/ Suggest
    \/ Settle

SpecUI == InitUI /\ [][NextUI]_vars

---------------------------------------------------------------------------
(* Claims about mapStatus (SpecStatus).                                    *)

MapStatusApplied == fn = "mapStatus" /\ result # NoResult

\* a delay value that exceeds 15 minutes
Exceeds15(d) == d # NONE /\ d[1] > 15

\* C2: mapStatus returns "delayed" whenever the departure delay or the
\* arrival delay is greater than 15 minutes, whatever the provider status
\* is (active, landed, cancelled, unknown, empty or missing).
C2_DelayedWhenOver15 ==
    (MapStatusApplied /\ (Exceeds15(args.depDelay) \/ Exceeds15(args.arrDelay)))
        => result.value = "delayed"

\* C2 witness: provider status "active" with an arrival delay of 16 minutes
\* and no departure delay has been mapped to "delayed".
C2_Witness ==
    /\ MapStatusApplied
    /\ args.apiStatus = W_active
    /\ args.depDelay = NONE
    /\ args.arrDelay = Some(16)
    /\ result.value = "delayed"

\* the documented provider vocabulary and what each word maps to
C3_Table ==
    { <<W_scheduled, "scheduled">>, <<W_active, "in-flight">>,
      <<W_landed, "landed">>, <<W_cancelled, "cancelled">>,
      <<W_incident, "delayed">>, <<W_diverted, "delayed">> }

\* C3: when neither delay exceeds 15 minutes (null, negative, zero, or at
\* most 15), mapStatus maps the provider status case-insensitively by the
\* table, maps every other or missing status to "scheduled", and never
\* returns "boarding" or "departed".
C3_TableWhenNotOver15 ==
    (MapStatusApplied /\ ~Exceeds15(args.depDelay) /\ ~Exceeds15(args.arrDelay))
        => /\ \A p \in C3_Table :
                  (args.apiStatus # NULL /\ ToLowerCase(args.apiStatus) = p[1])
                      => result.value = p[2]
           /\ (args.apiStatus = NULL
                 \/ \A p \in C3_Table : ToLowerCase(args.apiStatus) # p[1])
                  => result.value = "scheduled"
           /\ result.value \notin {"boarding", "departed"}

\* C3 witness: an upper-case "ACTIVE" with a departure delay of exactly 15
\* minutes has been mapped to "in-flight".
C3_Witness ==
    /\ MapStatusApplied
    /\ args.apiStatus = <<"A","C","T","I","V","E">>
    /\ args.depDelay = Some(15)
    /\ args.arrDelay = Some(0)
    /\ result.value = "in-flight"

---------------------------------------------------------------------------
(* Claims about transformPricingData (SpecPricing).                        *)

PricingApplied == fn = "transformPricingData" /\ result # NoResult

\* the position, in the provider's array, of the itinerary a result is of
PositionOf(r) == r.id[2]

\* C4: the list transformPricingData returns is ordered by non-decreasing
\* price, two results of equal price keep the relative order of their
\* itineraries in the provider's array, and a result's price is the amount
\* of its itinerary's first pricing option, 0 when the amount is missing.
C4_SortedStable ==
    PricingApplied =>
        LET out == result.value
        IN  /\ \A i \in 1..Len(out) : \A j \in 1..Len(out) :
                   i < j => /\ out[i].price <= out[j].price
                            /\ out[i].price = out[j].price
                                   => PositionOf(out[i]) < PositionOf(out[j])
            /\ \A i \in 1..Len(out) :
                   LET amount ==
                           args.data.itineraries[PositionOf(out[i])]
                               .pricing_options[1].price.amount
                   IN  out[i].price = IF amount = NONE THEN 0 ELSE amount[1]

\* C4 witness: itineraries priced 2, 1, 2 have been returned as the second,
\* the first and the third.
C4_Witness ==
    /\ PricingApplied
    /\ Len(result.value) = 3
    /\ <<PositionOf(result.value[1]), PositionOf(result.value[2]),
         PositionOf(result.value[3])>> = <<2, 1, 3>>
    /\ <<result.value[1].price, result.value[2].price, result.value[3].price>>
           = <<1, 2, 2>>

---------------------------------------------------------------------------
(* Claims about the handlers (Spec).                                       *)

Letters == {UpperAlphabet[i] : i \in 1..26}

\* exactly three letters A-Z
ThreeLetters(s) == s # NULL /\ Len(s) = 3 /\ \A i \in 1..3 : s[i] \in Letters

\* of the form YYYY-MM-DD
DateShaped(s) ==
    /\ s # NULL
    /\ Len(s) = 10
    /\ \A i \in 1..10 : IF i \in {5, 8} THEN s[i] = "-" ELSE s[i] \in DigitChars

\* the API key the running handler reads
KeyPresent ==
    IF handler = "prices" THEN FLIGHTAPI_KEY ELSE AVIATIONSTACK_API_KEY

\* the running handler's fixed configuration-error message
KeyMessage ==
    CASE handler = "flights" -> ERR_FLIGHTS_KEY
      [] handler = "prices"  -> ERR_PRICES_KEY
      [] OTHER               -> ERR_ROUTES_KEY

IsError(st, msg) ==
    /\ response.status = st
    /\ "error" \in DOMAIN response.body
    /\ response.body.error = msg

C5_Original ==
    (handler # "none" /\ ~KeyPresent)
        => pc = "done" /\ IsError(500, KeyMessage)

\* the checks each handler makes before it looks at its API key
PassesEarlyChecks ==
    CASE handler = "flights" -> locals.query # <<>>
      [] handler = "prices"  ->
             /\ ThreeLetters(locals.from) /\ ThreeLetters(locals.to)
             /\ DateShaped(locals.date)
      [] OTHER -> locals.origin # <<>> /\ locals.destination # <<>>

\* C5 amended: with the API key absent, a request that passes the checks
\* its handler makes before the key check is answered with HTTP 500 and the
\* fixed configuration-error message; one that fails them is answered by
\* those checks instead (search: 200 with no flights; pricing, routes: 400).
C5_Amended ==
    (handler # "none" /\ ~KeyPresent)
        => /\ pc = "done"
           /\ calls = <<>>
           /\ IF PassesEarlyChecks THEN IsError(500, KeyMessage)
              ELSE IF handler = "flights"
                   THEN response = [status |-> 200, body |-> [flights |-> <<>>]]
                   ELSE response.status = 400

\* C5 witness: the search handler, without its key, has answered a
\* well-formed query with the configuration error.
C5_Witness ==
    /\ handler = "flights"
    /\ ~AVIATIONSTACK_API_KEY
    /\ locals.query = <<"A", "A", "1">>
    /\ IsError(500, ERR_FLIGHTS_KEY)

\* a parameter of the running request violates what C6 lists: a required
\* parameter is missing, an airport code is not three upper-case letters,
\* or a date that was given is not of the form YYYY-MM-DD
C6_Invalid ==
    CASE handler = "flights" ->
             \/ locals.query = <<>>
             \/ locals.flightDate # <<>> /\ ~DateShaped(locals.flightDate)
      [] handler = "prices" ->
             \/ ~ThreeLetters(locals.from) \/ ~ThreeLetters(locals.to)
             \/ ~DateShaped(locals.date)
      [] handler = "routes" ->
             \/ ~ThreeLetters(locals.origin) \/ ~ThreeLetters(locals.destination)
             \/ locals.departureDate # <<>> /\ ~DateShaped(locals.departureDate)
             \/ locals.returnDate # <<>> /\ ~DateShaped(locals.returnDate)
      [] OTHER -> FALSE

\* C6: every handler answers a request with a missing required parameter,
\* a malformed airport code or a malformed date with HTTP 400, before any
\* provider call.
C6_Original ==
    C6_Invalid => pc = "done" /\ response.status = 400 /\ calls = <<>>

ValidationMessages ==
    {ERR_PRICES_MISSING, ERR_PRICES_CODE, ERR_PRICES_DATE, ERR_ROUTES_MISSING}

KeyMessages == {ERR_FLIGHTS_KEY, ERR_PRICES_KEY, ERR_ROUTES_KEY}

\* C7: a request answered with a validation error (400) or with the
\* configuration error (500, missing key) has caused no provider call, and
\* a provider call is only ever made for a request that passed its
\* handler's parameter checks with the key present.
C7_NoCallOnEarlyError ==
    /\ (/\ "error" \in DOMAIN response.body
        /\ response.body.error \in ValidationMessages \cup KeyMessages)
           => /\ calls = <<>>
              /\ replies = <<>>
              /\ response.status = IF response.body.error \in KeyMessages
                                   THEN 500 ELSE 400
    /\ calls # <<>> => KeyPresent /\ PassesEarlyChecks

\* C7 witness: the routes handler, without its key, has answered a request
\* with origin and destination by the configuration error and no call.
C7_Witness ==
    /\ handler = "routes"
    /\ locals.origin = <<"A", "A", "A">>
    /\ locals.destination = <<"A", "1">>
    /\ IsError(500, ERR_ROUTES_KEY)
    /\ calls = <<>>

\* C8: on the pricing endpoint a request in which from, to or date is
\* missing or empty is answered with HTTP 400 and the message naming the
\* required parameters, whatever the other parameters and the API key are.
C8_MissingParams ==
    (handler = "prices"
     /\ (Falsy(locals.from) \/ Falsy(locals.to) \/ Falsy(locals.date)))
        => pc = "done" /\ IsError(400, ERR_PRICES_MISSING) /\ calls = <<>>

\* C8 witness: without the API key, a request with from and to but no date
\* has been answered with the missing-parameters error.
C8_Witness ==
    /\ handler = "prices"
    /\ ~FLIGHTAPI_KEY
    /\ locals.from = <<"A", "A", "A">>
    /\ locals.to = <<"A", "A", "A">>
    /\ locals.date = NULL
    /\ IsError(400, ERR_PRICES_MISSING)

\* C9: on the pricing endpoint a request whose from or to (upper-cased and
\* trimmed) is not exactly three letters A-Z is answered with HTTP 400,
\* whatever the date, the other code and the API key are.
C9_MalformedCode ==
    (handler = "prices"
     /\ (~ThreeLetters(locals.from) \/ ~ThreeLetters(locals.to)))
        => pc = "done" /\ response.status = 400 /\ calls = <<>>

\* C9 witness: with a valid date and the key absent, from "A1A" has been
\* answered with the invalid-airport-code error.
C9_Witness ==
    /\ handler = "prices"
    /\ ~FLIGHTAPI_KEY
    /\ locals.from = <<"A", "1", "A">>
    /\ locals.to = <<"A", "A", "A">>
    /\ locals.date = D_valid
    /\ IsError(400, ERR_PRICES_CODE)

\* the provider's last answer was an HTTP answer with status st
LastReplyStatus(st) ==
    /\ replies # <<>>
    /\ replies[Len(replies)].kind = "http"
    /\ replies[Len(replies)].status = st

\* C10: in every handler that calls a provider, an upstream authentication
\* failure (401) is answered with HTTP 401, upstream rate limiting (429)
\* with HTTP 429, and any other upstream non-success with the provider's
\* status code or a generic 400 or 500.
C10_Original ==
    (handler # "none" /\ pc = "done" /\ replies # <<>>)
        => /\ LastReplyStatus(401) => response.status = 401
           /\ LastReplyStatus(429) => response.status = 429
           /\ \A st \in {404, 500, 502} :
                  LastReplyStatus(st) => response.status \in {st, 400, 500}

---------------------------------------------------------------------------
(* Exceptions                                                              *)

LastReply == replies[Len(replies)]

\* the provider's answer is a document without an error whose array has an
\* item the transform cannot read
HasUnreadableItem(h, reply) ==
    /\ reply # THROW
    /\ reply.json
    /\ IF h = "prices"
       THEN /\ Ok(reply)
            /\ reply.doc.error = "" /\ reply.doc.message = ""
            /\ \E k \in DOMAIN reply.doc.itineraries :
                   reply.doc.itineraries[k] = MISSING
       ELSE /\ ~reply.doc.error.present
            /\ \E k \in DOMAIN reply.doc.data.items :
                   \/ h = "flights" /\ reply.doc.data.items[k].flight = MISSING
                   \/ h = "routes" /\ reply.doc.data.items[k].airline = MISSING

\* the outbound call, or reading its answer, raised: fetch rejected, the
\* body could not be read, or the body the handler parses is not JSON (the
\* pricing handler parses only the body of a 2xx answer)
CallRaised(h, reply) ==
    \/ reply = THROW
    \/ reply.kind = "unreadable"
    \/ ~reply.json /\ (h = "prices" => Ok(reply))

RetryMessage(h) ==
    IF h = "flights" THEN ERR_FLIGHTS_RETRY
    ELSE IF h = "prices" THEN ERR_PRICES_RETRY
    ELSE ERR_ROUTES_RETRY

\* C11: in every handler, when the outbound call or the parsing or
\* transforming of its answer raises, the request ends with HTTP 500 and
\* the handler's "Please try again." message; and a request in progress is
\* either suspended on its one unanswered call, without a response, or has
\* ended with one response and every call answered.
C11_ExceptionsCaught ==
    /\ (handler # "none" /\ replies # <<>>
            /\ (CallRaised(handler, LastReply)
                    \/ HasUnreadableItem(handler, LastReply)))
           => pc = "done" /\ IsError(500, RetryMessage(handler))
    /\ handler # "none"
           => \/ /\ pc = "done"
                 /\ response # NoResponse
                 /\ Len(calls) = Len(replies)
              \/ /\ pc \in {"fetch", "fetch_return"}
                 /\ response = NoResponse
                 /\ Len(calls) = Len(replies) + 1

\* C11 witness: the routes handler's second call was rejected after the
\* first one was answered, and the request ended with HTTP 500.
C11_Witness ==
    /\ handler = "routes"
    /\ pc = "done"
    /\ Len(replies) = 2
    /\ LastReply = THROW
    /\ IsError(500, ERR_ROUTES_RETRY)

\* the provider answered the call with an error: an HTTP status outside
\* 2xx, or a document that carries the provider's error
ProviderError(h, reply) ==
    /\ reply # THROW
    /\ \/ ~Ok(reply)
       \/ /\ reply.json
          /\ IF h = "prices"
             THEN reply.doc.error # "" \/ reply.doc.message # ""
             ELSE reply.doc.error.present

\* C12: when a provider call of a handler is answered with a provider
\* error, no further call is made and the request ends with an error
\* response (a status of 400 or more and an error body); the second call
\* of the routes handler included.
C12_Original ==
    \A i \in 1..Len(replies) :
        ProviderError(handler, replies[i])
            => /\ Len(calls) <= i
               /\ pc = "done"
               /\ response.status >= 400
               /\ "error" \in DOMAIN response.body

---------------------------------------------------------------------------
(* Result ids                                                              *)

\* the id of the result at position i (counted from 0) ends with i, and no
\* two results of the list have the same id
IndexedIds(list) ==
    /\ \A i \in 1..Len(list) : list[i].id[Len(list[i].id)] = i - 1
    /\ \A i \in 1..Len(list) : \A j \in 1..Len(list) :
           i # j => list[i].id # list[j].id

Answered(h) == handler = h /\ pc = "done" /\ response.status = 200

\* C13 as stated: in a successful response of each of the three handlers,
\* the id of the result at position i ends with the index i and the ids of
\* one list are pairwise distinct.
C13_Original ==
    /\ Answered("flights") => IndexedIds(response.body.flights)
    /\ Answered("routes")
           => /\ IndexedIds(response.body.outbound.routes)
              /\ IndexedIds(response.body.return.routes)
    /\ Answered("prices") => IndexedIds(response.body.prices)

\* C13: in a successful response of the search handler and of the routes
\* handler, the id of the result at position i of a list ends with the
\* index i and the ids of one list are pairwise distinct; the id of a
\* price result is the id the provider gave its itinerary.
C13_Amended ==
    /\ Answered("flights") => IndexedIds(response.body.flights)
    /\ Answered("routes")
           => /\ IndexedIds(response.body.outbound.routes)
              /\ IndexedIds(response.body.return.routes)
    /\ Answered("prices")
           => \A i \in 1..Len(response.body.prices) :
                  \E k \in DOMAIN LastReply.doc.itineraries :
                      response.body.prices[i].id = LastReply.doc.itineraries[k].id

\* C13 witness: the provider listed the same flight twice and the two
\* results differ in the index their ids end with.
C13_Witness ==
    /\ Answered("flights")
    /\ Len(response.body.flights) = 2
    /\ response.body.flights[1].id = <<"AA100", "-", 0>>
    /\ response.body.flights[2].id = <<"AA100", "-", 1>>

---------------------------------------------------------------------------
(* Missing lookups                                                         *)

\* the itinerary has a first pricing option and a first leg
HasOptionAndLeg(itinerary) ==
    itinerary.pricing_options # <<>> /\ itinerary.legs # <<>>

\* the results transformPricingData returned for the itinerary at
\* position k of the provider's array
ResultsOf(k) ==
    {i \in 1..Len(result.value) : PositionOf(result.value[i]) = k}

\* the itinerary at position k is emitted once, and the airport fields of
\* a place id that is in no table, and the airline code of a carrier id
\* that is in no table, are the empty string; the airline name of such a
\* carrier id is unknownName
MissingLookupsGive(unknownName) ==
    \A k \in DOMAIN args.data.itineraries :
        LET itinerary == args.data.itineraries[k]
        IN  HasOptionAndLeg(itinerary) =>
                /\ Cardinality(ResultsOf(k)) = 1
                /\ \A i \in ResultsOf(k) :
                       LET r == result.value[i]
                           leg == itinerary.legs[1]
                       IN  /\ leg.origin_place_id \notin DOMAIN args.data.places
                                  => /\ r.departure.airport = ""
                                     /\ r.departure.airportName = ""
                           /\ leg.destination_place_id \notin DOMAIN args.data.places
                                  => /\ r.arrival.airport = ""
                                     /\ r.arrival.airportName = ""
                           /\ (leg.marketing_carrier_ids # <<>>
                                  /\ leg.marketing_carrier_ids[1]
                                         \notin DOMAIN args.data.carriers)
                                  => /\ r.airlineCode = ""
                                     /\ r.airline = unknownName

\* C14 as stated: every itinerary with a first pricing option and a first
\* leg is emitted, and each field derived from a place id or carrier id
\* that is in no lookup table, the airline name included, is the empty
\* string.
C14_Original == PricingApplied => MissingLookupsGive("")

\* C14: every itinerary with a first pricing option and a first leg is
\* emitted; the airport code and airport name of a place id that is in no
\* lookup table and the airline code of a carrier id that is in no lookup
\* table are the empty string, and the airline name of such a carrier id
\* is "Unknown Airline".
C14_Amended == PricingApplied => MissingLookupsGive("Unknown Airline")

\* C14 witness: an itinerary whose place ids and carrier id are in no
\* table has been turned into a result with empty airport and airline
\* codes.
C14_Witness ==
    /\ PricingApplied
    /\ \E i \in 1..Len(result.value) :
           LET r == result.value[i]
               leg == args.data.itineraries[PositionOf(r)].legs[1]
           IN  /\ leg = LegUnknown
               /\ r.departure.airport = "" /\ r.arrival.airport = ""
               /\ r.airlineCode = "" /\ r.airline = "Unknown Airline"

---------------------------------------------------------------------------
(* Claims about the search page (SpecUI).                                  *)

Count(b) == IF b THEN 1 ELSE 0

\* C15: after any sequence of searches, overlapping ones included, Home
\* renders at most one of the loading indicator, the error message, the
\* no-results state and the results list.
C15_Original ==
    Count(ShowsLoading) + Count(ShowsError) + Count(ShowsEmpty)
        + Count(ShowsResults) <= 1

\* the fetch ended in a failure: it was rejected, or the handler answered
\* with an error body
Failed(outcome) == outcome.rejected \/ outcome.data.error # ""

\* C16: when no fetch is outstanding and the most recently completed one
\* failed, Home renders the error message and not the no-results state;
\* the no-results state is rendered only when the most recently completed
\* fetch succeeded with zero flights.
C16_Original ==
    /\ (pending = {} /\ settled.any /\ Failed(settled.outcome))
           => ShowsError /\ ~ShowsEmpty
    /\ ShowsEmpty
           => /\ settled.any
              /\ ~Failed(settled.outcome)
              /\ settled.outcome.data.flights = <<>>

\* C17: loading is true in every state in which a fetch of searchFlights
\* is outstanding.
C17_Original == pending # {} => page.loading

\* C18: once no fetch is outstanding, the flights and the error of the
\* page are those that the most recently issued search alone leaves: the
\* end of an earlier search's fetch has not overwritten them.
C18_Original ==
    (pending = {} /\ latest.call = "settled")
        => LET alone == searchFlights_OnSettled(
                            searchFlights_Begin(page, latest.searchQuery).page,
                            latest.outcome)
           IN  /\ page.flights = alone.flights
               /\ page.error = alone.error

=============================================================================
